---- MODULE Spec2Model ----
(***************************************************************************)
(* TVidder (src/tvidder.py): TwitterDownloader and main.                   *)
(*                                                                         *)
(* Strings the code inspects character by character (the URL, the tweet    *)
(* id) are sequences of one-character strings.  Bytes are small integers.  *)
(* Three specifications share the variables:                               *)
(*   SpecExtract  extract_tweet_id applied to a family of URL strings;     *)
(*   SpecSelect   the variant selection of download_video (lines 81-101)   *)
(*                applied to a family of metadata responses;               *)
(*   Spec         one invocation of main, step by step.                    *)
(***************************************************************************)
EXTENDS Integers, Sequences, FiniteSets, TLC

VARIABLES
    pc,           \* position of the invocation
    argv,         \* how the command line parses: "ok", "help", "usage"
    token,        \* TRUE when TWITTER_BEARER_TOKEN is set and non-empty
    url,          \* args.url
    tweet_id,     \* local tweet_id of download_video (None before / no match)
    dir_created,  \* output_path.mkdir has run
    meta_gets,    \* number of requests.get calls of get_tweet_data
    dl_gets,      \* number of requests.get(video_url, stream=True) calls
    meta_status,  \* response.status_code of the metadata response (0: none yet)
    tweet_data,   \* response.json() of the metadata response
    video_url,    \* best_variant['url']
    cl_header,    \* the content-length header of the download response
    total_size,   \* local total_size
    body,         \* the bytes the download response delivers in all
    remaining,    \* the bytes of body not yet handed out by the response
    file_exists,  \* the output file is on disk
    file,         \* the bytes of the output file
    writes,       \* number of file.write calls that returned
    downloaded,   \* local downloaded
    updates,      \* the values passed to progress.update(task, completed=...)
    message,      \* kind of the error message printed ("" when none)
    raised,       \* class of the exception raised inside download_video ("" when none)
    result,       \* return value of download_video: "none", "true", "false"
    exit_code     \* argument of sys.exit (-1 while the process runs)

vars == <<pc, argv, token, url, tweet_id, dir_created, meta_gets, dl_gets,
          meta_status, tweet_data, video_url, cl_header, total_size, body,
          remaining, file_exists, file, writes, downloaded, updates, message,
          raised, result, exit_code>>

----------------------------------------------------------------------------
(* Characters and string literals                                          *)

Digits == {"0", "1", "2", "3", "4", "5", "6", "7", "8", "9"}

Letters == {"a", "b", "c", "d", "e", "f", "g", "h", "i", "j", "k", "l", "m",
            "n", "o", "p", "q", "r", "s", "t", "u", "v", "w", "x", "y", "z"}

\* the characters \w of the patterns matches (\d matches Digits)
WordChars == Letters \cup Digits \cup {"_"}

\* Python's None, as a value no string of characters equals
None == <<"None">>

LitTwitter == <<"t", "w", "i", "t", "t", "e", "r">>
LitX == <<"x">>
LitDotCom == <<".", "c", "o", "m", "/">>
LitStatus == <<"/", "s", "t", "a", "t", "u", "s", "/">>
LitIWebStatus == <<"i", "/", "w", "e", "b">> \o LitStatus

----------------------------------------------------------------------------
(* re.search for the two patterns of extract_tweet_id                      *)

\* the literal lit occurs in s starting at position i
MatchLit(s, i, lit) ==
    /\ i >= 1
    /\ i + Len(lit) - 1 <= Len(s)
    /\ SubSeq(s, i, i + Len(lit) - 1) = lit

\* number of consecutive characters of class cls starting at position i
RECURSIVE RunLen(_, _, _)
RunLen(s, i, cls) ==
    IF i <= Len(s) /\ s[i] \in cls THEN 1 + RunLen(s, i + 1, cls) ELSE 0

\* (?:twitter|x): the positions right after the alternation matched at i
HostEnds(s, i) ==
    (IF MatchLit(s, i, LitTwitter) THEN {i + Len(LitTwitter)} ELSE {})
        \cup (IF MatchLit(s, i, LitX) THEN {i + Len(LitX)} ELSE {})

\* (\d+?) at position j: one digit only
DigitGroupLazy(s, j) ==
    IF RunLen(s, j, Digits) >= 1 THEN SubSeq(s, j, j) ELSE None

\* (\d+) at position j: greedy, the whole run; None when the run is empty
DigitGroup(s, j) ==
    LET n == RunLen(s, j, Digits)
    IN IF n >= 1 THEN SubSeq(s, j, j + n - 1) ELSE None

\* (?:twitter|x)\.com/\w+/status/(\d+) anchored at i: group 1, or None
Pattern1At(s, i) ==
    LET starts == {e + Len(LitDotCom) : e \in {h \in HostEnds(s, i) : MatchLit(s, h, LitDotCom)}}
        \* \w+ takes k >= 1 word characters, the most first, and gives back
        \* until /status/(\d+) matches behind it
        ends == {p + k : p \in starts, k \in 1..Len(s)}
        ok == {q \in ends :
                 /\ \E p \in starts : q - p >= 1 /\ q - p <= RunLen(s, p, WordChars)
                 /\ MatchLit(s, q, LitStatus)
                 /\ DigitGroup(s, q + Len(LitStatus)) # None}
    IN IF ok = {} THEN None
       ELSE DigitGroup(s, (CHOOSE q \in ok : \A r \in ok : r <= q) + Len(LitStatus))

\* (?:twitter|x)\.com/i/web/status/(\d+) anchored at i: group 1, or None
Pattern2At(s, i) ==
    LET ok == {e + Len(LitDotCom) + Len(LitIWebStatus) :
                 e \in {h \in HostEnds(s, i) :
                          /\ MatchLit(s, h, LitDotCom)
                          /\ MatchLit(s, h + Len(LitDotCom), LitIWebStatus)}}
        hits == {j \in ok : DigitGroup(s, j) # None}
    IN IF hits = {} THEN None ELSE DigitGroup(s, CHOOSE j \in hits : TRUE)

\* re.search(pattern, url).group(1): the match at the leftmost position
Search1(s) ==
    LET at == {i \in 1..Len(s) : Pattern1At(s, i) # None}
    IN IF at = {} THEN None
       ELSE Pattern1At(s, CHOOSE i \in at : \A k \in at : i <= k)

Search2(s) ==
    LET at == {i \in 1..Len(s) : Pattern2At(s, i) # None}
    IN IF at = {} THEN None
       ELSE Pattern2At(s, CHOOSE i \in at : \A k \in at : i <= k)

\* TwitterDownloader.extract_tweet_id
extract_tweet_id(s) ==
    IF Search1(s) # None THEN Search1(s) ELSE Search2(s)

----------------------------------------------------------------------------
(* The metadata response and the variant selection (lines 81-101)          *)

MaxPhotos == 1
MaxVariants == 2
MaxBitRate == 1

Mp4 == "video/mp4"
ContentTypes == {Mp4, "application/x-mpegURL"}
VideoTypes == {"video", "animated_gif"}

\* the resource URL of the variant at position i of a variants list
UrlNames == <<"A", "B", "C", "D", "E">>

\* a variant: v.get('bit_rate', 0) reads bit_rate when has_bit_rate, else 0
VariantsAt(i, maxBitRate) ==
    {[content_type |-> c, has_bit_rate |-> h, bit_rate |-> b, url |-> UrlNames[i]] :
        c \in ContentTypes, h \in BOOLEAN, b \in 0..maxBitRate} \
    {v \in [content_type : ContentTypes, has_bit_rate : {FALSE},
            bit_rate : 1..maxBitRate, url : {UrlNames[i]}] : TRUE}

RECURSIVE VariantListsOfLen(_, _)
VariantListsOfLen(n, maxBitRate) ==
    IF n = 0 THEN {<<>>}
    ELSE {Append(l, v) : l \in VariantListsOfLen(n - 1, maxBitRate),
                         v \in VariantsAt(n, maxBitRate)}

VariantListsOf(maxVariants, maxBitRate) ==
    UNION {VariantListsOfLen(n, maxBitRate) : n \in 0..maxVariants}

\* a photo entry that carries an MP4 variant all the same
PhotoEntry ==
    [type |-> "photo", has_variants |-> TRUE,
     variants |-> <<[content_type |-> Mp4, has_bit_rate |-> TRUE,
                     bit_rate |-> MaxBitRate + 1, url |-> "P"]>>]

\* a second video entry, behind the first one
LaterVideoEntry ==
    [type |-> "video", has_variants |-> TRUE,
     variants |-> <<[content_type |-> Mp4, has_bit_rate |-> TRUE,
                     bit_rate |-> MaxBitRate + 1, url |-> "Z"]>>]

VideoEntriesOf(lists) ==
    [type : VideoTypes, has_variants : {TRUE}, variants : lists]
        \cup [type : VideoTypes, has_variants : {FALSE}, variants : {<<>>}]

Photos(k) == [i \in 1..k |-> PhotoEntry]

\* the parsed metadata responses: 'includes' absent, 'media' absent, or a
\* media list of photos, then possibly a video entry, then possibly another
TweetDatasOf(maxPhotos, lists) ==
    {[has_includes |-> FALSE, has_media |-> FALSE, media |-> <<>>],
     [has_includes |-> TRUE, has_media |-> FALSE, media |-> <<>>]}
    \cup {[has_includes |-> TRUE, has_media |-> TRUE, media |-> Photos(k) \o t] :
            k \in 0..maxPhotos,
            t \in {<<>>} \cup {<<v>> : v \in VideoEntriesOf(lists)}
                         \cup {<<v, LaterVideoEntry>> : v \in VideoEntriesOf(lists)}}

TweetDatas == TweetDatasOf(MaxPhotos, VariantListsOf(MaxVariants, MaxBitRate))

\* tweet_data before line 79 has assigned it
NoTweetData == [has_includes |-> FALSE, has_media |-> FALSE, media |-> <<>>, unset |-> TRUE]

\* x.get('bit_rate', 0)
BitRateKey(v) == IF v.has_bit_rate THEN v.bit_rate ELSE 0

\* max(seq, key=...) that keeps the last of several maximal elements
RECURSIVE PyMaxLast(_, _, _)
PyMaxLast(seq, i, best) ==
    IF i > Len(seq) THEN best
    ELSE PyMaxLast(seq, i + 1,
                   IF BitRateKey(seq[i]) >= BitRateKey(best) THEN seq[i] ELSE best)

\* max(video_variants, key=lambda x: x.get('bit_rate', 0)): the scan keeps
\* its candidate unless a later element's key is strictly greater
RECURSIVE PyMax(_, _, _)
PyMax(seq, i, best) ==
    IF i > Len(seq) THEN best
    ELSE PyMax(seq, i + 1,
               IF BitRateKey(seq[i]) > BitRateKey(best) THEN seq[i] ELSE best)

\* next((m for m in media if m['type'] in ['video', 'animated_gif']), None):
\* the index of the first such entry, 0 for None
FirstVideo(media) ==
    LET at == {i \in 1..Len(media) : media[i].type \in VideoTypes}
    IN IF at = {} THEN 0 ELSE CHOOSE i \in at : \A k \in at : i <= k

\* [v for v in variants if v.get('content_type') == 'video/mp4']
IsMp4(v) == v.content_type = Mp4
Mp4Variants(variants) == SelectSeq(variants, IsMp4)

\* lines 81-101 with the no-video check before the no-media check
SelectVariantVideoFirst(td) ==
    LET i == FirstVideo(td.media)
    IN IF i = 0 \/ ~td.media[i].has_variants
       THEN [kind |-> "no_video", url |-> ""]
       ELSE IF ~td.has_includes \/ ~td.has_media
       THEN [kind |-> "no_media", url |-> ""]
       ELSE LET vv == Mp4Variants(td.media[i].variants)
            IN IF vv = <<>> THEN [kind |-> "no_mp4", url |-> ""]
               ELSE [kind |-> "ok", url |-> PyMax(vv, 2, vv[1]).url]

\* lines 81-101 of download_video: the message printed, or the video_url
SelectVariant(td) ==
    IF ~td.has_includes \/ ~td.has_media
    THEN [kind |-> "no_media", url |-> ""]
    ELSE LET i == FirstVideo(td.media)
         IN IF i = 0 \/ ~td.media[i].has_variants
            THEN [kind |-> "no_video", url |-> ""]
            ELSE LET vv == Mp4Variants(td.media[i].variants)
                 IN IF vv = <<>> THEN [kind |-> "no_mp4", url |-> ""]
                    ELSE [kind |-> "ok", url |-> PyMax(vv, 2, vv[1]).url]

----------------------------------------------------------------------------
(* State shared by the specifications                                      *)

NoHeader == [present |-> FALSE, numeric |-> FALSE, value |-> 0]

\* every variable but pc, url and tweet_data, before main has done anything
Fresh ==
    /\ tweet_id = None
    /\ dir_created = FALSE
    /\ meta_gets = 0
    /\ dl_gets = 0
    /\ meta_status = 0
    /\ video_url = ""
    /\ cl_header = NoHeader
    /\ total_size = 0
    /\ body = <<>>
    /\ remaining = <<>>
    /\ file_exists = FALSE
    /\ file = <<>>
    /\ writes = 0
    /\ downloaded = 0
    /\ updates = <<>>
    /\ message = ""
    /\ raised = ""
    /\ result = "none"
    /\ exit_code = -1

----------------------------------------------------------------------------
(* SpecExtract: extract_tweet_id on a family of URL strings                *)

UrlPrefixes ==
    {<<>>, <<"/", "/">>,
     LitX \o LitDotCom \o LitIWebStatus \o <<"7", "&">>}
UrlHosts == {LitTwitter, LitX, <<"y">>, <<"f", "o", "x">>}
UrlDots == {LitDotCom, <<"-", "c", "o", "m", "/">>}
UrlUsers == {<<"u">>, <<"u", "_", "1">>, <<"i", "/", "w", "e", "b">>, <<>>, <<"a", "-", "b">>}
UrlStatuses == {LitStatus, <<"/", "s", "t", "a", "t", "/">>}
UrlIds == {<<>>, <<"1">>, <<"4", "2">>}
UrlSuffixes == {<<>>, <<"?", "s">>, <<"7">>, <<"/", "9">>}

Urls ==
    {p \o h \o d \o u \o st \o n \o x :
        p \in UrlPrefixes, h \in UrlHosts, d \in UrlDots, u \in UrlUsers,
        st \in UrlStatuses, n \in UrlIds, x \in UrlSuffixes}

InitExtract ==
    /\ pc = "extract"
    /\ argv = "ok"
    /\ token = TRUE
    /\ url \in Urls
    /\ tweet_data = NoTweetData
    /\ Fresh

\* tweet_id = self.extract_tweet_id(url)
ExtractCall ==
    /\ pc = "extract"
    /\ tweet_id' = extract_tweet_id(url)
    /\ pc' = "extracted"
    /\ UNCHANGED <<argv, token, url, dir_created, meta_gets, dl_gets,
                   meta_status, tweet_data, video_url, cl_header, total_size,
                   body, remaining, file_exists, file, writes, downloaded,
                   updates, message, raised, result, exit_code>>

SpecExtract == InitExtract /\ [][ExtractCall]_vars

----------------------------------------------------------------------------
(* SpecSelect: lines 81-101 on a family of metadata responses              *)

\* the parsed bodies of the 200 metadata responses main is run against
MetaResponses ==
    {[has_includes |-> FALSE, has_media |-> FALSE, media |-> <<>>],
     [has_includes |-> TRUE, has_media |-> FALSE, media |-> <<>>],
     [has_includes |-> TRUE, has_media |-> TRUE, media |-> <<>>],
     [has_includes |-> TRUE, has_media |-> TRUE, media |-> <<PhotoEntry>>],
     [has_includes |-> TRUE, has_media |-> TRUE, media |->
        <<PhotoEntry, [type |-> "video", has_variants |-> FALSE, variants |-> <<>>]>>],
     [has_includes |-> TRUE, has_media |-> TRUE, media |->
        <<[type |-> "video", has_variants |-> TRUE, variants |->
             <<[content_type |-> "application/x-mpegURL", has_bit_rate |-> TRUE,
                bit_rate |-> 0, url |-> "A"]>>],
          LaterVideoEntry>>],
     [has_includes |-> TRUE, has_media |-> TRUE, media |->
        <<[type |-> "video", has_variants |-> TRUE, variants |->
             <<[content_type |-> Mp4, has_bit_rate |-> TRUE, bit_rate |-> 600000, url |-> "A"],
               [content_type |-> Mp4, has_bit_rate |-> TRUE, bit_rate |-> 2176000, url |-> "B"],
               [content_type |-> "application/x-mpegURL", has_bit_rate |-> TRUE,
                bit_rate |-> 0, url |-> "C"]>>]>>],
     [has_includes |-> TRUE, has_media |-> TRUE, media |->
        <<PhotoEntry,
          [type |-> "animated_gif", has_variants |-> TRUE, variants |->
             <<[content_type |-> Mp4, has_bit_rate |-> FALSE, bit_rate |-> 0, url |-> "A"],
               [content_type |-> Mp4, has_bit_rate |-> TRUE, bit_rate |-> 0, url |-> "B"]>>]>>]}

InitSelect ==
    /\ pc = "select"
    /\ argv = "ok"
    /\ token = TRUE
    /\ url = <<>>
    /\ tweet_data \in TweetDatas \cup MetaResponses
    /\ Fresh

SelectCall ==
    /\ pc = "select"
    /\ message' = (IF SelectVariant(tweet_data).kind = "ok" THEN ""
                   ELSE SelectVariant(tweet_data).kind)
    /\ video_url' = SelectVariant(tweet_data).url
    /\ pc' = "selected"
    /\ UNCHANGED <<argv, token, url, tweet_id, dir_created, meta_gets, dl_gets,
                   meta_status, tweet_data, cl_header, total_size, body,
                   remaining, file_exists, file, writes, downloaded, updates,
                   raised, result, exit_code>>

SpecSelect == InitSelect /\ [][SelectCall]_vars

----------------------------------------------------------------------------
(* Spec: one invocation of main                                            *)

MaxBody == 3
MaxChunk == 2

Bytes == {0, 1}

RECURSIVE SeqsOfLen(_, _)
SeqsOfLen(S, n) ==
    IF n = 0 THEN {<<>>} ELSE {Append(q, x) : q \in SeqsOfLen(S, n - 1), x \in S}

\* the bodies a download response delivers
Bodies == UNION {SeqsOfLen(Bytes, n) : n \in 0..MaxBody}

\* the content-length header: absent, not a number, or a number
Headers ==
    {NoHeader, [present |-> TRUE, numeric |-> FALSE, value |-> 0]}
        \cup {[present |-> TRUE, numeric |-> TRUE, value |-> v] : v \in (0 - MaxBody)..MaxBody}

\* the URLs main is run with
MainUrls ==
    {<<"/", "/">> \o LitTwitter \o LitDotCom \o <<"u">> \o LitStatus \o <<"4", "2">>,
     LitX \o LitDotCom \o LitIWebStatus \o <<"1">> \o <<"?", "s">>,
     <<"/", "/">> \o <<"y">> \o LitDotCom \o <<"u">> \o LitStatus \o <<"1">>,
     LitX \o LitDotCom \o <<"u">> \o LitStatus}

\* the status codes of the metadata response
MetaStatuses == {200, 401, 404}

\* the classes `except Exception` (line 132) catches, among those raised
ExceptionClasses == {"Exception", "ValueError", "OSError", "RequestException"}

\* `if not tweet_id`
Falsy(id) == id = None \/ id = <<>>

\* int(...) of a quotient computed one too high (ceiling of the magnitude)
PyIntCeil(n, d) ==
    LET a == IF n >= 0 THEN n ELSE 0 - n
        b == IF d >= 0 THEN d ELSE 0 - d
        q == (a + b - 1) \div b
    IN IF (n >= 0) = (d > 0) THEN q ELSE 0 - q

\* int(n / d) for d # 0: true division, then truncation toward 0.  The
\* quotient of two doubles is the exact one as long as 100 * downloaded is
\* below 2^53, which is taken for granted here
PyInt(n, d) ==
    LET q == (IF n >= 0 THEN n ELSE 0 - n) \div (IF d >= 0 THEN d ELSE 0 - d)
    IN IF (n >= 0) = (d > 0) THEN q ELSE 0 - q

Init ==
    /\ pc = "main"
    /\ argv \in {"ok", "help", "usage"}
    /\ token \in BOOLEAN
    /\ url \in (IF argv = "ok" THEN MainUrls ELSE {<<>>})
    /\ tweet_data = NoTweetData
    /\ Fresh

\* an exception of class cls raised inside the try of download_video with the
\* narrower clause `except (OSError, requests.RequestException)`
ExceptNarrow(cls) ==
    /\ raised' = cls
    /\ UNCHANGED <<file, file_exists>>
    /\ IF cls \in {"OSError", "RequestException"}
       THEN /\ message' = "exception"
            /\ result' = "false"
            /\ pc' = "returned"
            /\ UNCHANGED exit_code
       ELSE /\ message' = (IF cls = "ValueError" THEN "config" ELSE "traceback")
            /\ exit_code' = 1
            /\ pc' = "exited"
            /\ UNCHANGED result

\* the same with a handler that removes the output file
ExceptCleanup(cls) ==
    /\ raised' = cls
    /\ file_exists' = FALSE
    /\ file' = <<>>
    /\ message' = "exception"
    /\ result' = "false"
    /\ pc' = "returned"
    /\ UNCHANGED exit_code

\* an exception of class cls raised inside the try of download_video: the
\* with-blocks are left (the file is closed as it is) and lines 132-134 catch
\* it when it is an Exception; anything else reaches main (lines 146-148)
Except(cls) ==
    /\ raised' = cls
    /\ UNCHANGED <<file, file_exists>>
    /\ IF cls \in ExceptionClasses
       THEN /\ message' = "exception"
            /\ result' = "false"
            /\ pc' = "returned"
            /\ UNCHANGED exit_code
       ELSE /\ message' = (IF cls = "ValueError" THEN "config" ELSE "traceback")
            /\ exit_code' = 1
            /\ pc' = "exited"
            /\ UNCHANGED result

\* main, lines 137-140: parser.parse_args() returns, or exits 0 (-h) or 2
ParseArgs ==
    /\ pc = "main"
    /\ IF argv = "ok" THEN pc' = "construct" /\ UNCHANGED exit_code
       ELSE /\ pc' = "exited"
            /\ exit_code' = (IF argv = "help" THEN 0 ELSE 2)
    /\ UNCHANGED <<argv, token, url, tweet_id, dir_created, meta_gets, dl_gets,
                   meta_status, tweet_data, video_url, cl_header, total_size,
                   body, remaining, file_exists, file, writes, downloaded,
                   updates, message, raised, result>>

\* main, line 143 and lines 146-148: TwitterDownloader.__init__
Construct ==
    /\ pc = "construct"
    /\ IF token THEN pc' = "extract" /\ UNCHANGED <<message, exit_code>>
       ELSE /\ message' = "config"
            /\ exit_code' = 1
            /\ pc' = "exited"
    /\ UNCHANGED <<argv, token, url, tweet_id, dir_created, meta_gets, dl_gets,
                   meta_status, tweet_data, video_url, cl_header, total_size,
                   body, remaining, file_exists, file, writes, downloaded,
                   updates, raised, result>>

\* lines 68-71 with the directory created before the URL is looked at
DvExtractMkdirFirst ==
    /\ pc = "extract"
    /\ tweet_id' = extract_tweet_id(url)
    /\ dir_created' = TRUE
    /\ IF Falsy(tweet_id')
       THEN message' = "invalid_url" /\ result' = "false" /\ pc' = "returned"
       ELSE pc' = "get_meta" /\ UNCHANGED <<message, result>>
    /\ UNCHANGED <<argv, token, url, meta_gets, dl_gets, meta_status,
                   tweet_data, video_url, cl_header, total_size, body,
                   remaining, file_exists, file, writes, downloaded, updates,
                   raised, exit_code>>

\* download_video, lines 68-71
DvExtract ==
    /\ pc = "extract"
    /\ tweet_id' = extract_tweet_id(url)
    /\ IF Falsy(tweet_id')
       THEN message' = "invalid_url" /\ result' = "false" /\ pc' = "returned"
       ELSE pc' = "mkdir" /\ UNCHANGED <<message, result>>
    /\ UNCHANGED <<argv, token, url, dir_created, meta_gets, dl_gets,
                   meta_status, tweet_data, video_url, cl_header, total_size,
                   body, remaining, file_exists, file, writes, downloaded,
                   updates, raised, exit_code>>

\* download_video, lines 74-75: output_path.mkdir(parents=True, exist_ok=True)
Mkdir ==
    /\ pc = "mkdir"
    /\ \E fails \in BOOLEAN :
        IF fails THEN Except("OSError") /\ UNCHANGED dir_created
        ELSE /\ dir_created' = TRUE
             /\ pc' = "get_meta"
             /\ UNCHANGED <<message, raised, result, exit_code, file, file_exists>>
    /\ UNCHANGED <<argv, token, url, tweet_id, meta_gets, dl_gets, meta_status,
                   tweet_data, video_url, cl_header, total_size, body,
                   remaining, writes, downloaded, updates>>

\* get_tweet_data that asks again after a response that is not 200
GetMetaRetry ==
    /\ pc = "get_meta"
    /\ meta_gets' = meta_gets + 1
    /\ \E st \in MetaStatuses :
        /\ meta_status' = st
        /\ IF st # 200 THEN UNCHANGED <<pc, tweet_data>>
           ELSE \E td \in MetaResponses : tweet_data' = td /\ pc' = "select"
    /\ UNCHANGED <<message, raised, result, exit_code, file, file_exists>>
    /\ UNCHANGED <<argv, token, url, tweet_id, dir_created, dl_gets, video_url,
                   cl_header, total_size, body, remaining, writes, downloaded,
                   updates>>

\* download_video, lines 78-79, and get_tweet_data, lines 50-63
GetMeta ==
    /\ pc = "get_meta"
    /\ meta_gets' = meta_gets + 1
    /\ \/ \* requests.get raises
          /\ Except("RequestException")
          /\ UNCHANGED <<meta_status, tweet_data>>
       \/ \E st \in MetaStatuses :
          /\ meta_status' = st
          /\ IF st # 200
             THEN Except("Exception") /\ UNCHANGED tweet_data
             ELSE \/ \* response.json() raises
                     Except("ValueError") /\ UNCHANGED tweet_data
                  \/ \E td \in MetaResponses :
                        /\ tweet_data' = td
                        /\ pc' = "select"
                        /\ UNCHANGED <<message, raised, result, exit_code, file,
                                       file_exists>>
    /\ UNCHANGED <<argv, token, url, tweet_id, dir_created, dl_gets, video_url,
                   cl_header, total_size, body, remaining, writes, downloaded,
                   updates>>

\* download_video, lines 81-101
Select ==
    /\ pc = "select"
    /\ LET r == SelectVariant(tweet_data)
       IN IF r.kind # "ok"
          THEN /\ message' = r.kind
               /\ result' = "false"
               /\ pc' = "returned"
               /\ UNCHANGED video_url
          ELSE /\ video_url' = r.url
               /\ pc' = "get_video"
               /\ UNCHANGED <<message, result>>
    /\ UNCHANGED <<argv, token, url, tweet_id, dir_created, meta_gets, dl_gets,
                   meta_status, tweet_data, cl_header, total_size, body,
                   remaining, file_exists, file, writes, downloaded, updates,
                   raised, exit_code>>

\* download_video, lines 116-117: the streamed GET and int(content-length)
GetVideo ==
    /\ pc = "get_video"
    /\ dl_gets' = dl_gets + 1
    /\ \/ \* requests.get raises
          /\ Except("RequestException")
          /\ UNCHANGED <<cl_header, body, remaining, total_size>>
       \/ \E h \in Headers, b \in Bodies :
          /\ cl_header' = h
          /\ body' = b
          /\ remaining' = b
          /\ IF h.present /\ ~h.numeric
             THEN Except("ValueError") /\ UNCHANGED total_size
             ELSE /\ total_size' = (IF h.present THEN h.value ELSE 0)
                  /\ pc' = "open"
                  /\ UNCHANGED <<message, raised, result, exit_code, file,
                                 file_exists>>
    /\ UNCHANGED <<argv, token, url, tweet_id, dir_created, meta_gets,
                   meta_status, tweet_data, video_url, writes, downloaded,
                   updates>>

\* download_video, lines 119-120 and 123: open(output_file, 'wb')
Open ==
    /\ pc = "open"
    /\ \/ Except("OSError")
       \/ /\ file_exists' = TRUE
          /\ file' = <<>>
          /\ pc' = (IF total_size = 0 THEN "write_all" ELSE "iter")
          /\ UNCHANGED <<message, raised, result, exit_code>>
    /\ UNCHANGED <<argv, token, url, tweet_id, dir_created, meta_gets, dl_gets,
                   meta_status, tweet_data, video_url, cl_header, total_size,
                   body, remaining, writes, downloaded, updates>>

\* line 121 with a progress update of 100 after the write
WriteAllUpdate ==
    /\ pc = "write_all"
    /\ remaining' = <<>>
    /\ file' = file \o remaining
    /\ writes' = writes + 1
    /\ updates' = Append(updates, 100)
    /\ pc' = "close"
    /\ UNCHANGED <<argv, token, url, tweet_id, dir_created, meta_gets, dl_gets,
                   meta_status, tweet_data, video_url, cl_header, total_size,
                   body, downloaded, file_exists, message, raised, result,
                   exit_code>>

\* download_video, line 121: file.write(response.content)
WriteAll ==
    /\ pc = "write_all"
    /\ \/ \* response.content raises
          Except("RequestException") /\ UNCHANGED <<remaining, writes>>
       \/ \* file.write raises
          Except("OSError") /\ remaining' = <<>> /\ UNCHANGED writes
       \/ /\ remaining' = <<>>
          /\ file' = file \o remaining
          /\ writes' = writes + 1
          /\ pc' = "close"
          /\ UNCHANGED <<file_exists, message, raised, result, exit_code>>
    /\ UNCHANGED <<argv, token, url, tweet_id, dir_created, meta_gets, dl_gets,
                   meta_status, tweet_data, video_url, cl_header, total_size,
                   body, downloaded, updates>>

\* download_video, lines 124-127: one round of the loop over iter_content
IterChunk ==
    /\ pc = "iter"
    /\ remaining # <<>>
    /\ \/ \* iter_content raises
          Except("RequestException") /\ UNCHANGED <<remaining, downloaded, writes, updates>>
       \/ \E n \in 1..MaxChunk :
          /\ n <= Len(remaining)
          /\ remaining' = SubSeq(remaining, n + 1, Len(remaining))
          /\ downloaded' = downloaded + n
          /\ \/ \* file.write raises
                Except("OSError") /\ UNCHANGED <<writes, updates>>
             \/ /\ file' = file \o SubSeq(remaining, 1, n)
                /\ writes' = writes + 1
                /\ updates' = Append(updates, PyInt(100 * downloaded', total_size))
                /\ UNCHANGED <<pc, file_exists, message, raised, result, exit_code>>
    /\ UNCHANGED <<argv, token, url, tweet_id, dir_created, meta_gets, dl_gets,
                   meta_status, tweet_data, video_url, cl_header, total_size,
                   body>>

\* download_video, line 124: iter_content is exhausted
IterEnd ==
    /\ pc = "iter"
    /\ remaining = <<>>
    /\ pc' = "close"
    /\ UNCHANGED <<argv, token, url, tweet_id, dir_created, meta_gets, dl_gets,
                   meta_status, tweet_data, video_url, cl_header, total_size,
                   body, remaining, file_exists, file, writes, downloaded,
                   updates, message, raised, result, exit_code>>

\* download_video, lines 119 and 129-130: the with-blocks are left, return True
Close ==
    /\ pc = "close"
    /\ \/ \* closing the file raises
          Except("OSError")
       \/ /\ result' = "true"
          /\ pc' = "returned"
          /\ UNCHANGED <<message, raised, exit_code, file, file_exists>>
    /\ UNCHANGED <<argv, token, url, tweet_id, dir_created, meta_gets, dl_gets,
                   meta_status, tweet_data, video_url, cl_header, total_size,
                   body, remaining, writes, downloaded, updates>>

\* main, line 145: sys.exit(0 if success else 1)
Exit ==
    /\ pc = "returned"
    /\ exit_code' = (IF result = "true" THEN 0 ELSE 1)
    /\ pc' = "exited"
    /\ UNCHANGED <<argv, token, url, tweet_id, dir_created, meta_gets, dl_gets,
                   meta_status, tweet_data, video_url, cl_header, total_size,
                   body, remaining, file_exists, file, writes, downloaded,
                   updates, message, raised, result>>

Next ==
    \/ ParseArgs
    \/ Construct
    \/ DvExtract
    \/ Mkdir
    \/ GetMeta
    \/ Select
    \/ GetVideo
    \/ Open
    \/ WriteAll
    \/ IterChunk
    \/ IterEnd
    \/ Close
    \/ Exit

Spec == Init /\ [][Next]_vars

----------------------------------------------------------------------------
(* C9: extract_tweet_id                                                    *)

\* s[a..b] is a non-empty run of characters of cls
AllIn(s, a, b, cls) == a <= b /\ b <= Len(s) /\ \A t \in a..b : s[t] \in cls

\* the places <<i, j>> where s holds, from position i on, the host twitter or
\* x, then .com/, then the middle part mid, then /status/, then a digit at j
OccurrencesOf(s, mid) ==
    {<<y[1], y[1] + y[2] + Len(LitDotCom) + y[3] + Len(LitStatus)>> :
        y \in {x \in (1..Len(s)) \X {Len(LitX), Len(LitTwitter)} \X (1..Len(s)) :
                 /\ MatchLit(s, x[1], IF x[2] = Len(LitX) THEN LitX ELSE LitTwitter)
                 /\ MatchLit(s, x[1] + x[2], LitDotCom)
                 /\ LET a == x[1] + x[2] + Len(LitDotCom)
                    IN /\ IF mid = <<>> THEN AllIn(s, a, a + x[3] - 1, WordChars)
                          ELSE x[3] = Len(mid) /\ MatchLit(s, a, mid)
                       /\ MatchLit(s, a + x[3], LitStatus)
                       /\ AllIn(s, a + x[3] + Len(LitStatus),
                                a + x[3] + Len(LitStatus), Digits)}}

\* <user>/status/<digits> (mid <<>>: any run of word characters)
UserOccurrences(s) == OccurrencesOf(s, <<>>)
\* i/web/status/<digits>
WebOccurrences(s) == OccurrencesOf(s, <<"i", "/", "w", "e", "b">>)

\* the whole digit run of s that starts at j
WholeRun(s, j) ==
    SubSeq(s, j, CHOOSE k \in j..Len(s) :
                    /\ AllIn(s, j, k, Digits)
                    /\ (k = Len(s) \/ s[k + 1] \notin Digits))

\* the digits of the leftmost occurrence
LeftmostDigits(s, occ) ==
    WholeRun(s, (CHOOSE o \in occ : \A q \in occ : o[1] <= q[1])[2])

\* C9: extract_tweet_id returns the whole digit run of the leftmost
\* occurrence of the first pattern that occurs in the URL, and None for a
\* URL in which neither pattern occurs
C9_ExtractReturnsDigits ==
    pc = "extracted" =>
        tweet_id = (IF UserOccurrences(url) # {} THEN LeftmostDigits(url, UserOccurrences(url))
                    ELSE IF WebOccurrences(url) # {} THEN LeftmostDigits(url, WebOccurrences(url))
                    ELSE None)

\* a URL whose digits are followed by one more digit: the id is the whole run
C9_Witness ==
    /\ pc = "extracted"
    /\ tweet_id = <<"4", "2", "7">>
    /\ UserOccurrences(url) = {}
    /\ WebOccurrences(url) # {}

----------------------------------------------------------------------------
(* C3: the variant selection                                               *)

\* entry i is the first entry of media whose type is video or animated_gif
IsSelectedEntry(media, i) ==
    /\ media[i].type \in VideoTypes
    /\ \A k \in 1..(i - 1) : media[k].type \notin VideoTypes

\* C3: when the variants of the selected media entry hold a video/mp4 entry,
\* video_url is the URL of a video/mp4 entry whose bit-rate (0 when missing)
\* no video/mp4 entry exceeds and no earlier video/mp4 entry equals
C3_SelectsBestMp4 ==
    (pc = "selected" /\ tweet_data.has_includes /\ tweet_data.has_media) =>
        \A i \in 1..Len(tweet_data.media) :
            LET vs == tweet_data.media[i].variants
            IN (/\ IsSelectedEntry(tweet_data.media, i)
                /\ tweet_data.media[i].has_variants
                /\ \E k \in 1..Len(vs) : vs[k].content_type = "video/mp4")
               => \E j \in 1..Len(vs) :
                    /\ vs[j].content_type = "video/mp4"
                    /\ video_url = vs[j].url
                    /\ message = ""
                    /\ \A k \in 1..Len(vs) :
                        vs[k].content_type = "video/mp4" =>
                            /\ BitRateKey(vs[k]) <= BitRateKey(vs[j])
                            /\ (k < j => BitRateKey(vs[k]) < BitRateKey(vs[j]))

\* two video/mp4 variants of equal bit-rate (one missing, one 0): the first wins
C3_Witness ==
    /\ pc = "selected"
    /\ Len(tweet_data.media) = 2
    /\ tweet_data.media[1].type = "photo"
    /\ tweet_data.media[2].variants =
          <<[content_type |-> "video/mp4", has_bit_rate |-> FALSE, bit_rate |-> 0, url |-> "A"],
            [content_type |-> "video/mp4", has_bit_rate |-> TRUE, bit_rate |-> 0, url |-> "B"]>>
    /\ video_url = "A"

----------------------------------------------------------------------------
(* C1: the exit code                                                       *)

\* download_video wrote the whole body to the output file
FullyWritten == file_exists /\ remaining = <<>> /\ file = body

ExitCodeRule ==
    /\ (exit_code = 0) <=> (result = "true" /\ FullyWritten)
    /\ exit_code # 0 => exit_code = 1
    /\ raised # "" => result = "false" /\ message = "exception"
    /\ message \in {"config", "invalid_url", "no_media", "no_video", "no_mp4"} => exit_code = 1
    /\ (meta_status # 0 /\ meta_status # 200) => exit_code = 1

\* C1 as stated: in every invocation of main the exit code is 0 exactly when
\* download_video returned True, and 1 otherwise; no exception leaves
\* download_video
C1_EveryInvocation == pc = "exited" => ExitCodeRule

\* C1 as amended: the same, for the invocations whose command line
\* parser.parse_args() accepts
C1_ExitCode == (pc = "exited" /\ argv = "ok") => ExitCodeRule

\* a filesystem error after the file was opened, caught, and exit code 1
C1_Witness ==
    /\ pc = "exited"
    /\ argv = "ok"
    /\ raised = "OSError"
    /\ file_exists
    /\ result = "false"
    /\ exit_code = 1

----------------------------------------------------------------------------
(* C2: a URL that matches neither pattern                                  *)

\* C2: for a URL in which neither pattern occurs, the directory is never
\* created, no request is issued, no file is opened, download_video returns
\* False and the exit code is 1
C2_InvalidUrlNoEffects ==
    (argv = "ok" /\ UserOccurrences(url) = {} /\ WebOccurrences(url) = {}) =>
        /\ ~dir_created
        /\ meta_gets = 0
        /\ dl_gets = 0
        /\ ~file_exists
        /\ pc \in {"main", "construct", "extract", "returned", "exited"}
        /\ (pc \in {"returned", "exited"} /\ token) =>
                result = "false" /\ message = "invalid_url"
        /\ pc = "exited" => exit_code = 1

C2_Witness ==
    /\ pc = "exited"
    /\ token
    /\ UserOccurrences(url) = {}
    /\ WebOccurrences(url) = {}
    /\ message = "invalid_url"
    /\ exit_code = 1

----------------------------------------------------------------------------
(* C4: the order of the selector's checks                                  *)

\* lines 81-101 have run on the parsed metadata response
SelectorRan == tweet_data # NoTweetData /\ pc # "select"

SelectorFailedWith(kind) ==
    /\ message = kind
    /\ result = "false"
    /\ raised = ""
    /\ dl_gets = 0
    /\ ~file_exists
    /\ pc \in {"returned", "exited"}

\* C4: a response without includes.media fails as no-media; a media list
\* without a video or animated_gif entry fails as no-video; a selected entry
\* whose variants hold no video/mp4 fails as no-MP4; and no download request
\* is issued in any of the three
C4_FirstFailingCheck ==
    SelectorRan =>
        /\ (~tweet_data.has_includes \/ ~tweet_data.has_media) =>
                SelectorFailedWith("no_media")
        /\ (/\ tweet_data.has_includes
            /\ tweet_data.has_media
            /\ \A i \in 1..Len(tweet_data.media) :
                    tweet_data.media[i].type \notin {"video", "animated_gif"}) =>
                SelectorFailedWith("no_video")
        /\ \A i \in 1..Len(tweet_data.media) :
                (/\ tweet_data.has_includes
                 /\ tweet_data.has_media
                 /\ IsSelectedEntry(tweet_data.media, i)
                 /\ tweet_data.media[i].has_variants
                 /\ \A k \in 1..Len(tweet_data.media[i].variants) :
                        tweet_data.media[i].variants[k].content_type # "video/mp4") =>
                    SelectorFailedWith("no_mp4")

\* the three kinds are reached (here: no includes at all)
C4_Witness ==
    /\ pc = "exited"
    /\ tweet_data = [has_includes |-> FALSE, has_media |-> FALSE, media |-> <<>>]
    /\ message = "no_media"
    /\ exit_code = 1

----------------------------------------------------------------------------
(* C7: no retry, stages in order                                           *)

\* C7: at most one metadata GET and one download GET; the download GET only
\* after a 200 metadata response from which a video/mp4 variant was selected;
\* any other status ends the invocation with the API error
C7_NoRetryInOrder ==
    /\ meta_gets <= 1
    /\ dl_gets <= 1
    /\ dl_gets = 1 =>
        /\ meta_gets = 1
        /\ meta_status = 200
        /\ \E i \in 1..Len(tweet_data.media) :
             \E k \in 1..Len(tweet_data.media[i].variants) :
                /\ tweet_data.media[i].variants[k].content_type = "video/mp4"
                /\ tweet_data.media[i].variants[k].url = video_url
    /\ (meta_status # 0 /\ meta_status # 200) =>
        /\ pc \in {"returned", "exited"}
        /\ raised = "Exception"
        /\ result = "false"
        /\ meta_gets = 1
        /\ dl_gets = 0
        /\ ~file_exists
        /\ pc = "exited" => exit_code = 1

C7_Witness ==
    /\ pc = "exited"
    /\ meta_status = 404
    /\ meta_gets = 1
    /\ dl_gets = 0
    /\ exit_code = 1

----------------------------------------------------------------------------
(* C5, C6, C10: the download and its progress updates                      *)

\* floor(n / d) for d # 0
Floor(n, d) ==
    CHOOSE q \in (0 - 100 * (MaxBody + 1))..(100 * (MaxBody + 1)) :
        IF d > 0 THEN q * d <= n /\ n < (q + 1) * d
        ELSE q * d >= n /\ n > (q + 1) * d

\* the content-length header is a number
HasLength == cl_header.present /\ cl_header.numeric

\* one round of the chunk loop: the chunk received is the next n >= 1 bytes
\* of the body, it is appended to the file, and one update is emitted, the
\* floor of 100 * (bytes received so far) / content-length
ChunkStep ==
    \E n \in 1..Len(body) :
        /\ Len(file) + n <= Len(body)
        /\ file' = file \o SubSeq(body, Len(file) + 1, Len(file) + n)
        /\ updates' = Append(updates, Floor(100 * Len(file'), cl_header.value))
        /\ Len(updates') = writes'

\* with the chunks summing to content-length, the last update is 100 and the
\* file has content-length bytes
ChunksComplete ==
    (result = "true" /\ HasLength /\ cl_header.value # 0 /\ Len(body) = cl_header.value) =>
        /\ updates # <<>>
        /\ updates[Len(updates)] = 100
        /\ Len(file) = cl_header.value

\* C5 as stated: whenever content-length is present and nonzero
C5_NonzeroLength ==
    /\ [][(pc = "iter" /\ pc' = "iter" /\ HasLength /\ cl_header.value # 0) => ChunkStep]_vars
    /\ []ChunksComplete

\* C5 as amended: whenever content-length is present and positive, every
\* chunk received is appended to the file at once and followed by exactly one
\* update, floor(100 * bytes_downloaded / content_length)
C5_PositiveLength ==
    /\ [][(pc = "iter" /\ pc' = "iter" /\ HasLength /\ cl_header.value > 0) => ChunkStep]_vars
    /\ []ChunksComplete

\* content-length 2 in two chunks of 1: updates 50 then 100, a 2-byte file
C5_Witness ==
    /\ result = "true"
    /\ HasLength
    /\ cl_header.value = 2
    /\ updates = <<50, 100>>
    /\ Len(file) = 2
    /\ file = body

\* C6: with content-length absent or zero no update is ever emitted and the
\* body is written in one write; without an exception download_video returns
\* True and the file holds the body
C6_NoLengthSingleWrite ==
    (dl_gets = 1 /\ (~cl_header.present \/ (cl_header.numeric /\ cl_header.value = 0))) =>
        /\ updates = <<>>
        /\ writes <= 1
        /\ pc \notin {"iter"}
        /\ (pc \in {"returned", "exited"} /\ raised = "") =>
                /\ result = "true"
                /\ file_exists
                /\ file = body
                /\ writes = 1

\* content-length: 0 with a body of MaxBody bytes
C6_Witness ==
    /\ pc = "exited"
    /\ cl_header.present
    /\ cl_header.value = 0
    /\ Len(body) = MaxBody
    /\ result = "true"
    /\ file = body
    /\ updates = <<>>

\* C10: in a chunked download every progress value is in 0..100 and the
\* values never decrease, whatever the chunks and whatever the length of the
\* body (stated for a positive content-length; the claim covers every
\* nonzero one)
C10_ProgressInRange ==
    (HasLength /\ cl_header.value > 0) =>
        \A k \in 1..Len(updates) :
            /\ updates[k] \in 0..100
            /\ k > 1 => updates[k - 1] <= updates[k]

----------------------------------------------------------------------------
(* C8: a failure after the output file was opened                          *)

IsPrefix(p, q) == Len(p) <= Len(q) /\ p = SubSeq(q, 1, Len(p))

\* C8: the step that raises, and every step after it, leaves the output file
\* on disk with the bytes it had; download_video returns False; the file
\* holds a prefix of the body
C8_PartialFileKept ==
    /\ [][(file_exists /\ raised' # "") => (file_exists' /\ file' = file)]_vars
    /\ []((raised # "" /\ file_exists) => (result = "false" /\ IsPrefix(file, body)))

\* the connection drops after one chunk of a longer body
C8_Witness ==
    /\ pc = "exited"
    /\ raised = "RequestException"
    /\ file_exists
    /\ Len(file) = 1
    /\ Len(body) = MaxBody
    /\ result = "false"

====
